---- MODULE Spec2Model ----
(***************************************************************************)
(* Analytics platform: the guarded natural-language-to-SQL pipeline        *)
(* (backend/src/services/aiQueryService.ts, backend/src/routes/ai.ts),     *)
(* the event ingestion gateway (backend/src/routes/events.ts) and the web  *)
(* SDK event buffer (sdk/web/src/index.ts).                                *)
(*                                                                         *)
(* Query text is a sequence of characters; a character is a one-letter     *)
(* string, except "NL" (line feed) and "BT" (backtick).                    *)
(***************************************************************************)
EXTENDS Integers, Sequences, FiniteSets, TLC

\* ------------------------------------------------------------------ bounds
\* longest model response body, in words of Vocabulary
MaxWords == 3

\* ------------------------------------------------------------------ state
\* Query Service, one POST /query request
VARIABLES
    stage,       \* Query Service: step the current POST /query request is at
    projectId,   \* req.query.project_id of the request (the requesting tenant)
    ctxLimit,    \* context.limit of the request, NoLimit when absent
    sql,         \* text returned by generateSQL
    validation,  \* result of validateSQL(sql), with the text it was given
    executed,    \* what executeQuery was called with: [called, sql, cap]
    result,      \* AIQueryResult returned by processNaturalLanguageQuery
    logged,      \* records written by logAIQuery for this request
    response,    \* HTTP response of the request
    trace        \* steps the request has gone through, in order

queryVars == <<stage, projectId, ctxLimit, sql, validation, executed, result, logged, response, trace>>

\* Ingestion Gateway and its stores
VARIABLES
    requests,      \* ingestion requests in flight: [kind, pc, events, resp]
    eventsTable,   \* rows of the ClickHouse table events: <<request, index>>
    recentEvents,  \* the Redis list recent_events:<project>, head first
    ttlSet,        \* the Redis key has an expiry
    emitted,       \* events broadcast to the project room
    clientTimes,   \* timestamp values the clients of this deployment send
    rateLimitMax,  \* max of eventRateLimit (EVENT_RATE_LIMIT_MAX or 1000)
    totalHits,     \* requests eventRateLimit has counted in the current window
    windowAccepted, \* events acknowledged with 201 in the current window
    overlapped,    \* some handler started while another one was in flight
    recentResp     \* response of the GET /recent handled in the latest step

ingestVars == <<requests, eventsTable, recentEvents, ttlSet, emitted, clientTimes, rateLimitMax, totalHits, windowAccepted, overlapped, recentResp>>

\* web SDK, one Analytics instance
VARIABLES
    eventQueue,        \* this.eventQueue: ids of the queued events, oldest first
    retries,           \* retries field of every event object
    isOnline,          \* this.isOnline
    storage,           \* localStorage analytics_queue: [id, retries] per saved event
    inFlight,          \* batches whose fetch has not settled yet
    nextId,            \* id of the next event track() creates
    loadFlushPending,  \* the setTimeout(() => this.flush(), 1000) of loadQueuedEvents
    attempts,          \* per event: fetch requests that carried it
    failures,          \* per event: failed deliveries that included it
    delivered,         \* per event: fetch requests answered ok that carried it
    offlineTracked,    \* events tracked since the connection was lost
    userId,            \* this.userId, "null" when anonymous
    sessionId,         \* this.sessionId: number of the generated session id
    timerOn,           \* this.flushTimer is an interval that has not been cleared
    listeners,         \* functions registered on window, by event type
    beaconed,          \* per event: sendBeacon / synchronous XHR calls that carried it
    instance,          \* number of the Analytics instance (page load)
    resetMark,         \* id of the first event created after the latest reset()
    destroyed,         \* destroy() has been called on the instance
    unloaded,          \* the page of the instance has been unloaded
    lastStatus,        \* what the fetch that settled in the latest step ended with, "none" after any other step
    storedRows         \* per event: rows the gateway inserted into the events table for it, counted up to MaxRowsCounted

\* identity, timer, listeners and teardown of the instance
lifeVars == <<userId, sessionId, timerOn, listeners, beaconed, instance, resetMark, destroyed, unloaded, storedRows>>

clientVars == <<eventQueue, retries, isOnline, storage, inFlight, nextId, loadFlushPending, attempts, failures, delivered, offlineTracked, lastStatus, lifeVars>>

\* Analytics routes: GET /funnel
VARIABLES
    funnelEvents,  \* req.query.events split at the commas: the names of the funnel steps
    funnelStore,   \* distinct users of every step in the events table (the step_<i>_users the query computes)
    funnelResp     \* response of the last GET /funnel request

funnelVars == <<funnelEvents, funnelStore, funnelResp>>

\* Realtime service: socket.io connections and rooms
VARIABLES
    connectedClients,  \* this.connectedClients: ids of the connected sockets
    rooms,             \* per socket: the rooms it is in (socket.rooms, a Set)
    joinLog,           \* per socket: project ids of the join_project messages handled since it connected
    published,         \* events passed to broadcastEvent so far: [id, project]
    received           \* per socket: the new_event messages emitted to it, in order

realtimeVars == <<connectedClients, rooms, joinLog, published, received>>

\* extractSQL applied to one model response
VARIABLES
    extraction  \* [query, raw, done, out]: the query the response holds, the response, the text extractSQL returned

extractVars == <<extraction>>

\* ------------------------------------------------------------------ text
NL == "NL"

BT == "BT"

\* upper-case letters and their lower-case forms
lowerOf == "A" :> "a" @@ "B" :> "b" @@ "C" :> "c" @@ "D" :> "d" @@ "E" :> "e" @@ "F" :> "f" @@ "G" :> "g" @@ "H" :> "h" @@ "I" :> "i" @@ "J" :> "j" @@ "K" :> "k" @@ "L" :> "l" @@ "M" :> "m" @@ "N" :> "n" @@ "O" :> "o" @@ "P" :> "p" @@ "Q" :> "q" @@ "R" :> "r" @@ "S" :> "s" @@ "T" :> "t" @@ "U" :> "u" @@ "V" :> "v" @@ "W" :> "w" @@ "X" :> "x" @@ "Y" :> "y" @@ "Z" :> "z"

\* String.prototype.toLowerCase, one character
lowerChar(c) == IF c \in DOMAIN lowerOf THEN lowerOf[c] ELSE c

\* String.prototype.toLowerCase
toLowerCase(s) == [i \in 1..Len(s) |-> lowerChar(s[i])]

\* String.prototype.includes (case-sensitive substring test)
includes(s, k) ==
    \E i \in 1..(Len(s) - Len(k) + 1) :
        (k = <<>> \/ s[i] = k[1]) /\ SubSeq(s, i, i + Len(k) - 1) = k

\* String.prototype.indexOf from a position, 1-based; 0 when k does not occur
indexOf(s, k, from) ==
    LET hits == {i \in from..(Len(s) - Len(k) + 1) :
                    (k = <<>> \/ s[i] = k[1]) /\ SubSeq(s, i, i + Len(k) - 1) = k}
    IN IF hits = {} THEN 0 ELSE CHOOSE i \in hits : \A j \in hits : i <= j

isSpace(c) == c \in {" ", NL}

RECURSIVE trimStart(_)
trimStart(s) == IF s # <<>> /\ isSpace(Head(s)) THEN trimStart(Tail(s)) ELSE s

RECURSIVE trimEnd(_)
trimEnd(s) ==
    IF s # <<>> /\ isSpace(s[Len(s)]) THEN trimEnd(SubSeq(s, 1, Len(s) - 1)) ELSE s

\* String.prototype.trim
trim(s) == trimEnd(trimStart(s))

\* .replace(/;$/, '')
stripSemicolon(s) ==
    IF s # <<>> /\ s[Len(s)] = ";" THEN SubSeq(s, 1, Len(s) - 1) ELSE s

\* ------------------------------------------------------------------ words
kwSelect == <<"s", "e", "l", "e", "c", "t">>

kwProjectId == <<"p", "r", "o", "j", "e", "c", "t", "_", "i", "d">>

kwDrop == <<"d", "r", "o", "p">>

kwDelete == <<"d", "e", "l", "e", "t", "e">>

kwUpdate == <<"u", "p", "d", "a", "t", "e">>

kwInsert == <<"i", "n", "s", "e", "r", "t">>

kwAlter == <<"a", "l", "t", "e", "r">>

kwCreate == <<"c", "r", "e", "a", "t", "e">>

\* const dangerousKeywords = ['drop', 'delete', 'update', 'insert', 'alter', 'create']
dangerousKeywords == <<kwDrop, kwDelete, kwUpdate, kwInsert, kwAlter, kwCreate>>

Tenants == {"T1", "T2"}

\* project_id values of a request: absent, or a tenant. The two tenants are
\* interchangeable, so requests come from T1 and T2 is the other tenant.
RequestProjectIds == {"", "T1"}

tenantChars(t) == IF t = "T1" THEN <<"T", "1">> ELSE <<"T", "2">>

\* the text  project_id='<t>'  : a condition restricting project_id to t
tenantFilter(t) ==
    <<"p", "r", "o", "j", "e", "c", "t", "_", "i", "d", "=", "'">> \o tenantChars(t) \o <<"'">>

\* words a model response is made of
Vocabulary ==
    { <<"S", "E", "L", "E", "C", "T">>,
      kwSelect,
      kwProjectId,
      tenantFilter("T1"),
      tenantFilter("T2"),
      <<"t", "r", "u", "n", "c", "a", "t", "e">>,
      <<"D", "R", "O", "P">>,
      <<"'", "D", "e", "l", "e", "t", "e", "d", "'">>,
      <<"-", "-", "u", "p", "d", "a", "t", "e">>,
      <<"I", "n", "s", "e", "r", "t">>,
      <<"A", "L", "T", "E", "R">>,
      <<"c", "r", "e", "a", "t", "e", "d", "_", "a", "t">> }

Bodies == UNION {[1..n -> Vocabulary] : n \in 0..MaxWords}

RECURSIVE joinWords(_)
joinWords(ws) ==
    IF ws = <<>> THEN <<>>
    ELSE IF Len(ws) = 1 THEN ws[1]
    ELSE ws[1] \o <<" ">> \o joinWords(Tail(ws))

Fences == {"none", "sql", "plain"}

fenceSql == <<BT, BT, BT, "s", "q", "l", NL>>

fencePlain == <<BT, BT, BT, NL>>

fenceClose == <<NL, BT, BT, BT>>

\* raw text of a model response: the body bare or inside a code fence
responseText(fence, ws) ==
    CASE fence = "sql" -> fenceSql \o joinWords(ws) \o fenceClose
      [] fence = "plain" -> fencePlain \o joinWords(ws) \o fenceClose
      [] OTHER -> joinWords(ws)

\* ------------------------------------------------------------------ extractSQL
\* /```sql\n([\s\S]*?)\n```/i and /```\n([\s\S]*?)\n```/i : leftmost opening
\* fence, lazily up to the nearest closing fence; the group is what lies between
fenceMatch(raw, open) ==
    LET low == toLowerCase(raw)
        i == indexOf(low, toLowerCase(open), 1)
        j == IF i = 0 THEN 0 ELSE indexOf(low, fenceClose, i + Len(open))
    IN IF i = 0 \/ j = 0
       THEN [matched |-> FALSE, group |-> <<>>]
       ELSE [matched |-> TRUE, group |-> SubSeq(raw, i + Len(open), j - 1)]

\* /(SELECT[\s\S]*?;?)/i : the lazy [\s\S]*? takes no character, so the group
\* is the word SELECT as written, plus a semicolon when one follows directly
selectMatch(raw) ==
    LET k == indexOf(toLowerCase(raw), kwSelect, 1)
    IN IF k = 0
       THEN [matched |-> FALSE, group |-> <<>>]
       ELSE [matched |-> TRUE,
             group |-> SubSeq(raw, k, k + 5) \o
                       (IF k + 6 <= Len(raw) /\ raw[k + 6] = ";"
                        THEN <<";">> ELSE <<>>)]

\* AIQueryService.extractSQL
extractSQL(raw) ==
    LET m1 == fenceMatch(raw, fenceSql)
        m2 == fenceMatch(raw, fencePlain)
        m3 == selectMatch(raw)
    IN CASE m1.matched -> stripSemicolon(trim(m1.group))
         [] ~m1.matched /\ m2.matched -> stripSemicolon(trim(m2.group))
         [] ~m1.matched /\ ~m2.matched /\ m3.matched -> stripSemicolon(trim(m3.group))
         [] OTHER -> stripSemicolon(trim(raw))

\* ------------------------------------------------------------------ validateSQL
dangerousMessages == <<"Dangerous operation detected: DROP", "Dangerous operation detected: DELETE", "Dangerous operation detected: UPDATE", "Dangerous operation detected: INSERT", "Dangerous operation detected: ALTER", "Dangerous operation detected: CREATE">>

\* if (!sql.toLowerCase().includes('select')) errors.push(...)
selectCheck(candidate) ==
    IF ~includes(toLowerCase(candidate), kwSelect)
    THEN <<"Query must be a SELECT statement">> ELSE <<>>

\* if (!sql.includes('project_id')) errors.push(...)
projectIdCheck(candidate) ==
    IF ~includes(candidate, kwProjectId)
    THEN <<"Query must include project_id filter for security">> ELSE <<>>

\* dangerousCheck comparing the text as written, without lower-casing it
dangerousCheckCaseSensitive(candidate) ==
    LET found == SelectSeq(<<1, 2, 3, 4, 5, 6>>,
                           LAMBDA k : includes(candidate, dangerousKeywords[k]))
    IN [n \in 1..Len(found) |-> dangerousMessages[found[n]]]

\* for (const keyword of dangerousKeywords) if (lowerSQL.includes(keyword)) errors.push(...)
dangerousCheck(candidate) ==
    LET lowerSQL == toLowerCase(candidate)
        found == SelectSeq(<<1, 2, 3, 4, 5, 6>>,
                           LAMBDA k : includes(lowerSQL, dangerousKeywords[k]))
    IN [n \in 1..Len(found) |-> dangerousMessages[found[n]]]

\* the errors validateSQL has collected when it reaches the EXPLAIN call
textErrors(candidate) ==
    selectCheck(candidate) \o projectIdCheck(candidate) \o dangerousCheck(candidate)

\* EXPLAIN SYNTAX is sent only when no error was found; a query the store
\* cannot explain is an error
explainCheck(errors, explainOk) ==
    IF errors = <<>> /\ ~explainOk THEN <<"SQL syntax error">> ELSE errors

\* isValid of the validation result
isValidOf(errors) == errors = <<>>

\* AIQueryService.validateSQL
validateSQL(candidate, explainOk) ==
    LET errors == explainCheck(textErrors(candidate), explainOk)
    IN [isValid |-> isValidOf(errors), errors |-> errors]

\* ------------------------------------------------------------------ executeQuery
\* default result cap of processNaturalLanguageQuery: context.limit || 1000
DefaultCap == 1000

\* aiQuerySchema: limit: Joi.number().integer().min(1).max(10000)
MinLimit == 1

MaxLimit == 10000

\* aiQuerySchema: question: Joi.string().min(5).max(500)
MinQuestion == 5

MaxQuestion == 500

\* context.limit is absent (undefined)
NoLimit == 0

\* context.limit || 1000
capOf(contextLimit) == IF contextLimit = NoLimit THEN DefaultCap ELSE contextLimit

\* executeQuery(sql, limit): at most limit of the rows the query matches
executeQuery(matched, cap) == IF matched <= cap THEN matched ELSE cap

\* aiQuerySchema.validate(req.body)
aiQuerySchemaOk(questionLen, contextLimit) ==
    /\ questionLen >= MinQuestion
    /\ questionLen <= MaxQuestion
    /\ contextLimit = NoLimit \/ (contextLimit >= MinLimit /\ contextLimit <= MaxLimit)

\* ------------------------------------------------------------------ inputs
\* lengths of the question of a request: around both limits of aiQuerySchema
QuestionLengths == {MinQuestion - 1, MinQuestion, MaxQuestion, MaxQuestion + 1}

\* context.limit values of a request: absent, the schema maximum (over the
\* default cap), over the schema maximum
ContextLimits == {NoLimit, MaxLimit, MaxLimit + 1}

\* numbers of rows a query matches in the event store
RowCounts == {0, DefaultCap, DefaultCap + 1, MaxLimit, MaxLimit + 1}

NoValidation == [isValid |-> FALSE, errors |-> <<>>, text |-> <<>>]

NoResult == [sql |-> <<>>, error |-> "", rows |-> 0, hasData |-> FALSE]

NotExecuted == [called |-> FALSE, sql |-> <<>>, cap |-> 0]

NoResponse == [status |-> 0, error |-> "", sql |-> <<>>, rows |-> 0]

InitQuery ==
    /\ stage = "Idle"
    /\ projectId = ""
    /\ ctxLimit = NoLimit
    /\ sql = <<>>
    /\ validation = NoValidation
    /\ executed = NotExecuted
    /\ result = NoResult
    /\ logged = <<>>
    /\ response = NoResponse
    /\ trace = <<>>

\* ------------------------------------------------------------------ POST /query
\* router.post('/query'): body and project_id checks, then the call of
\* processNaturalLanguageQuery with the tenant's context
PostQuery ==
    /\ stage = "Idle"
    /\ \E questionLen \in QuestionLengths, contextLimit \in ContextLimits,
          pid \in RequestProjectIds :
          /\ sql' = <<>>
          /\ validation' = NoValidation
          /\ executed' = NotExecuted
          /\ result' = NoResult
          /\ logged' = <<>>
          /\ IF ~aiQuerySchemaOk(questionLen, contextLimit)
             THEN /\ stage' = "Returned"
                  /\ response' = [status |-> 400, error |-> "validation", sql |-> <<>>, rows |-> 0]
                  /\ projectId' = ""
                  /\ ctxLimit' = NoLimit
                  /\ trace' = <<>>
             ELSE IF pid = ""
             THEN /\ stage' = "Returned"
                  /\ response' = [status |-> 400, error |-> "project_id is required", sql |-> <<>>, rows |-> 0]
                  /\ projectId' = ""
                  /\ ctxLimit' = NoLimit
                  /\ trace' = <<>>
             ELSE /\ stage' = "Received"
                  /\ response' = NoResponse
                  /\ projectId' = pid
                  /\ ctxLimit' = contextLimit
                  /\ trace' = <<"Received">>
    /\ UNCHANGED <<ingestVars, clientVars, funnelVars, realtimeVars, extractVars>>

\* buildContext: schema, sample queries, common patterns (its store failure is
\* caught and replaced by defaults)
BuildContext ==
    /\ stage = "Received"
    /\ stage' = "ContextBuilt"
    /\ trace' = Append(trace, "ContextBuilt")
    /\ UNCHANGED <<projectId, ctxLimit, sql, validation, executed, result, logged, response>>
    /\ UNCHANGED <<ingestVars, clientVars, funnelVars, realtimeVars, extractVars>>

\* generateSQL: the model call and extractSQL; a failed call throws, which the
\* catch of processNaturalLanguageQuery turns into a result; an empty
\* extraction returns 'Failed to generate SQL query'
GenerateSQL ==
    /\ stage = "ContextBuilt"
    /\ \/ /\ stage' = "GenerationFailed"
          /\ sql' = <<>>
          /\ result' = [sql |-> <<>>, error |-> "Failed to generate SQL with AI", rows |-> 0, hasData |-> FALSE]
          /\ trace' = Append(trace, "GenerationFailed")
       \/ \E fence \in Fences, ws \in Bodies :
             LET text == extractSQL(responseText(fence, ws))
             IN /\ sql' = text
                /\ IF text = <<>>
                   THEN /\ stage' = "GenerationFailed"
                        /\ result' = [sql |-> <<>>, error |-> "Failed to generate SQL query", rows |-> 0, hasData |-> FALSE]
                        /\ trace' = Append(trace, "GenerationFailed")
                   ELSE /\ stage' = "QueryGenerated"
                        /\ result' = result
                        /\ trace' = Append(trace, "QueryGenerated")
    /\ UNCHANGED <<projectId, ctxLimit, validation, executed, logged, response>>
    /\ UNCHANGED <<ingestVars, clientVars, funnelVars, realtimeVars, extractVars>>

\* Validate going on to execution whatever validateSQL answered
ValidateIgnoringResult ==
    /\ stage = "QueryGenerated"
    /\ \E explainOk \in BOOLEAN :
          LET v == validateSQL(sql, explainOk)
          IN validation' = [isValid |-> v.isValid, errors |-> v.errors, text |-> sql]
    /\ stage' = "Validated"
    /\ trace' = Append(trace, "Validated")
    /\ UNCHANGED <<projectId, ctxLimit, sql, executed, result, logged, response>>
    /\ UNCHANGED <<ingestVars, clientVars, funnelVars, realtimeVars, extractVars>>

\* const validation = await this.validateSQL(sql); if (!validation.isValid) return { sql, error }
Validate ==
    /\ stage = "QueryGenerated"
    /\ \E explainOk \in BOOLEAN :
          LET v == validateSQL(sql, explainOk)
          IN /\ validation' = [isValid |-> v.isValid, errors |-> v.errors, text |-> sql]
             /\ IF ~v.isValid
                THEN /\ stage' = "Rejected"
                     /\ result' = [sql |-> sql, error |-> "Invalid SQL", rows |-> 0, hasData |-> FALSE]
                     /\ trace' = Append(trace, "Rejected")
                ELSE /\ stage' = "Validated"
                     /\ result' = result
                     /\ trace' = Append(trace, "Validated")
    /\ UNCHANGED <<projectId, ctxLimit, sql, executed, logged, response>>
    /\ UNCHANGED <<ingestVars, clientVars, funnelVars, realtimeVars, extractVars>>

\* const data = await this.executeQuery(sql, context.limit || 1000); a store
\* failure throws and the catch returns { sql: '', error }
Execute ==
    /\ stage = "Validated"
    /\ executed' = [called |-> TRUE, sql |-> sql, cap |-> capOf(ctxLimit)]
    /\ \/ /\ stage' = "ExecutionFailed"
          /\ result' = [sql |-> <<>>, error |-> "store error", rows |-> 0, hasData |-> FALSE]
          /\ trace' = Append(trace, "ExecutionFailed")
       \/ \E matched \in RowCounts :
             /\ stage' = "Executed"
             /\ result' = [sql |-> sql, error |-> "", rows |-> executeQuery(matched, capOf(ctxLimit)), hasData |-> TRUE]
             /\ trace' = Append(trace, "Executed")
    /\ UNCHANGED <<projectId, ctxLimit, sql, validation, logged, response>>
    /\ UNCHANGED <<ingestVars, clientVars, funnelVars, realtimeVars, extractVars>>

\* generateInsights and suggestVisualization (best-effort: they add to the
\* result and do not fail the request), then return { sql, data, insights, visualization }
AttachInsights ==
    /\ stage = "Executed"
    /\ stage' = "InsightsAttached"
    /\ trace' = Append(trace, "InsightsAttached")
    /\ UNCHANGED <<projectId, ctxLimit, sql, validation, executed, result, logged, response>>
    /\ UNCHANGED <<ingestVars, clientVars, funnelVars, realtimeVars, extractVars>>

\* the route with the record written for successful invocations only
RespondLoggingSuccessOnly ==
    /\ stage \in {"GenerationFailed", "Rejected", "ExecutionFailed", "InsightsAttached"}
    /\ stage' = "Returned"
    /\ trace' = Append(trace, "Returned")
    /\ \/ /\ logged' = logged
          /\ response' = [status |-> 500, error |-> "AI query processing failed", sql |-> <<>>, rows |-> 0]
       \/ /\ logged' = IF result.error # ""
                       THEN logged
                       ELSE Append(logged, [generated_sql |-> result.sql, result_count |-> result.rows, error_message |-> result.error])
          /\ response' = IF result.error # ""
                         THEN [status |-> 400, error |-> result.error, sql |-> result.sql, rows |-> 0]
                         ELSE [status |-> 200, error |-> "", sql |-> result.sql, rows |-> result.rows]
    /\ UNCHANGED <<projectId, ctxLimit, sql, validation, executed, result>>
    /\ UNCHANGED <<ingestVars, clientVars, funnelVars, realtimeVars, extractVars>>

\* the route after processNaturalLanguageQuery returned: logAIQuery, then the
\* error response (400 with details and sql) or the success response; a
\* failing logAIQuery throws into the route's catch (500)
Respond ==
    /\ stage \in {"GenerationFailed", "Rejected", "ExecutionFailed", "InsightsAttached"}
    /\ stage' = "Returned"
    /\ trace' = Append(trace, "Returned")
    /\ \/ /\ logged' = logged
          /\ response' = [status |-> 500, error |-> "AI query processing failed", sql |-> <<>>, rows |-> 0]
       \/ /\ logged' = Append(logged, [generated_sql |-> result.sql, result_count |-> result.rows, error_message |-> result.error])
          /\ response' = IF result.error # ""
                         THEN [status |-> 400, error |-> result.error, sql |-> result.sql, rows |-> 0]
                         ELSE [status |-> 200, error |-> "", sql |-> result.sql, rows |-> result.rows]
    /\ UNCHANGED <<projectId, ctxLimit, sql, validation, executed, result>>
    /\ UNCHANGED <<ingestVars, clientVars, funnelVars, realtimeVars, extractVars>>

\* ------------------------------------------------------------------ ingestion gateway
\* concurrent ingestion requests
MaxRequests == 2

\* longest batch a request carries
MaxBatch == 2

\* entries the recent-events list keeps (ltrim 0 .. RecentKeep - 1; the source
\* keeps 100, scaled to the request and batch bounds)
RecentKeep == 2

\* EVENT_RATE_LIMIT_MAX of a deployment that sets it (scaled to the request bound)
RateMax == 1

\* max of eventRateLimit when EVENT_RATE_LIMIT_MAX is not set
DefaultRateLimit == 1000

\* GET /recent: parseInt(req.query.limit) || 10
DefaultRecentLimit == 10

\* batchEventsSchema: Joi.array().min(1).max(100)
BatchMin == 1

BatchMax == 100

\* eventSchema: event_name: Joi.string().min(1).max(100)
NameMin == 1

NameMax == 100

Requests == 1..MaxRequests

\* timestamp values a client may put into an event (ISO dates, by rank)
Timestamps == {1, 2}

\* event payloads of a request body: valid ones with a client-supplied
\* timestamp, the shape the web SDK sends with its default identity, one with
\* an over-long name
Payloads ==
    { [user_id |-> "uuid", event_name |-> NameMin, properties |-> "scalar", session_id |-> "uuid", platform |-> "web", timestamp |-> t] : t \in clientTimes }
    \cup
    { [user_id |-> "text", event_name |-> NameMin, properties |-> "scalar", session_id |-> "text", platform |-> "web", timestamp |-> 1],
      [user_id |-> "uuid", event_name |-> NameMax + 1, properties |-> "scalar", session_id |-> "absent", platform |-> "web", timestamp |-> 1] }

Batches == UNION {[1..n -> Payloads] : n \in 0..MaxBatch}

\* eventSchema.validate with abortEarly: the first failing key in schema order,
\* "" when the payload is valid
eventSchema(p) ==
    CASE p.user_id # "uuid" -> "user_id"
      [] p.user_id = "uuid" /\ (p.event_name < NameMin \/ p.event_name > NameMax) -> "event_name"
      [] p.user_id = "uuid" /\ p.event_name >= NameMin /\ p.event_name <= NameMax
         /\ p.properties # "scalar" -> "properties"
      [] p.user_id = "uuid" /\ p.event_name >= NameMin /\ p.event_name <= NameMax
         /\ p.properties = "scalar" /\ p.session_id \notin {"uuid", "absent"} -> "session_id"
      [] p.user_id = "uuid" /\ p.event_name >= NameMin /\ p.event_name <= NameMax
         /\ p.properties = "scalar" /\ p.session_id \in {"uuid", "absent"}
         /\ p.platform \notin {"web", "android", "ios", "absent"} -> "platform"
      [] OTHER -> ""

\* batchEventsSchema validating the first item of the array only
batchEventsSchemaFirstItem(batch) ==
    IF batch # <<>> /\ eventSchema(batch[1]) # "" THEN [item |-> 1, key |-> eventSchema(batch[1])]
    ELSE IF Len(batch) < BatchMin \/ Len(batch) > BatchMax THEN [item |-> 0, key |-> "events"]
    ELSE [item |-> 0, key |-> ""]

\* batchEventsSchema.validate: error.details[0] names the first failing item
\* and its key ("events[i].key"); item 0 and key "events" for a length error
batchEventsSchema(batch) ==
    LET bad == {i \in 1..Len(batch) : eventSchema(batch[i]) # ""}
        first == CHOOSE i \in bad : \A j \in bad : i <= j
    IN IF bad # {} THEN [item |-> first, key |-> eventSchema(batch[first])]
       ELSE IF Len(batch) < BatchMin \/ Len(batch) > BatchMax THEN [item |-> 0, key |-> "events"]
       ELSE [item |-> 0, key |-> ""]

NoResp == [status |-> 0, item |-> 0, key |-> "", count |-> 0, failedAt |-> ""]

IdleRequest == [kind |-> "none", pc |-> "idle", events |-> <<>>, resp |-> NoResp]

NoRecent == [status |-> 0, source |-> "", limit |-> 0, events |-> <<>>]

\* the gateway after start-up with empty stores; environment picks what the
\* clients put into timestamp and the value of EVENT_RATE_LIMIT_MAX
InitGatewayState ==
    /\ requests = [r \in Requests |-> IdleRequest]
    /\ eventsTable = {}
    /\ recentEvents = <<>>
    /\ ttlSet = FALSE
    /\ emitted = {}
    /\ totalHits = 0
    /\ windowAccepted = 0
    /\ overlapped = FALSE
    /\ recentResp = NoRecent

\* a deployment with the default rate limit whose clients send one timestamp value
InitIngest ==
    /\ InitGatewayState
    /\ clientTimes = {1}
    /\ rateLimitMax = DefaultRateLimit

\* a deployment with EVENT_RATE_LIMIT_MAX set whose clients send any timestamp
InitGateway ==
    /\ InitGatewayState
    /\ clientTimes = Timestamps
    /\ rateLimitMax = RateMax

\* the events of request r as stored: <<r, i>> identifies item i
eventIds(r, evs) == [i \in 1..Len(evs) |-> <<r, i>>]

seqToSet(q) == {q[i] : i \in 1..Len(q)}

\* LPUSH key v
lpush(list, v) == <<v>> \o list

RECURSIVE lpushAll(_, _)
lpushAll(list, vs) == IF vs = <<>> THEN list ELSE lpushAll(lpush(list, Head(vs)), Tail(vs))

\* LTRIM key 0 stop
ltrim(list, stop) == SubSeq(list, 1, IF Len(list) < stop + 1 THEN Len(list) ELSE stop + 1)

\* the catch of both handlers: res.status(500); failedAt is the step the
\* request had completed when the exception was thrown
fail500(r) ==
    requests' = [requests EXCEPT ![r].pc = "done",
                                 ![r].resp = [status |-> 500, item |-> 0, key |-> "", count |-> 0, failedAt |-> requests[r].pc]]

\* eventRateLimit (express-rate-limit): every request of the router is
\* counted once, whatever it carries, and is refused when the count of the
\* window exceeds max
rateLimited == totalHits + 1 > rateLimitMax

\* the counter of the window; counts past max + 1 are not told apart
countHit == totalHits' = IF totalHits <= rateLimitMax THEN totalHits + 1 ELSE totalHits

\* response of eventRateLimit: 429 'Too many events, please slow down.'
resp429 == [status |-> 429, item |-> 0, key |-> "", count |-> 0, failedAt |-> ""]

\* another handler is between its validation and its response
otherInFlight(r) == \E r2 \in Requests \ {r} : requests[r2].pc \notin {"idle", "done"}

\* router.post('/'): eventRateLimit, then eventSchema.validate(req.body); 400
\* on error. Requests are numbered in arrival order.
PostEvent(r) ==
    /\ requests[r].pc = "idle"
    /\ r > 1 => requests[r - 1].pc # "idle"
    /\ countHit
    /\ \E p \in Payloads :
          /\ requests' = [requests EXCEPT ![r] =
                IF rateLimited
                THEN [kind |-> "single", pc |-> "done", events |-> <<p>>, resp |-> resp429]
                ELSE IF eventSchema(p) # ""
                THEN [kind |-> "single", pc |-> "done", events |-> <<p>>,
                      resp |-> [status |-> 400, item |-> 0, key |-> eventSchema(p), count |-> 0, failedAt |-> ""]]
                ELSE [kind |-> "single", pc |-> "validated", events |-> <<p>>, resp |-> NoResp]]
          /\ overlapped' = (overlapped \/ (requests'[r].pc = "validated" /\ otherInFlight(r)))
    /\ recentResp' = NoRecent
    /\ UNCHANGED <<eventsTable, recentEvents, ttlSet, emitted, clientTimes, rateLimitMax, windowAccepted>>
    /\ UNCHANGED <<queryVars, clientVars, funnelVars, realtimeVars, extractVars>>

\* router.post('/batch'): eventRateLimit, then batchEventsSchema.validate(req.body);
\* 400 on error
PostBatch(r) ==
    /\ requests[r].pc = "idle"
    /\ r > 1 => requests[r - 1].pc # "idle"
    /\ countHit
    /\ \E batch \in Batches :
          LET error == batchEventsSchema(batch)
          IN /\ requests' = [requests EXCEPT ![r] =
                   IF rateLimited
                   THEN [kind |-> "batch", pc |-> "done", events |-> batch, resp |-> resp429]
                   ELSE IF error.key # ""
                   THEN [kind |-> "batch", pc |-> "done", events |-> batch,
                         resp |-> [status |-> 400, item |-> error.item, key |-> error.key, count |-> 0, failedAt |-> ""]]
                   ELSE [kind |-> "batch", pc |-> "validated", events |-> batch, resp |-> NoResp]]
             /\ overlapped' = (overlapped \/ (requests'[r].pc = "validated" /\ otherInFlight(r)))
    /\ recentResp' = NoRecent
    /\ UNCHANGED <<eventsTable, recentEvents, ttlSet, emitted, clientTimes, rateLimitMax, windowAccepted>>
    /\ UNCHANGED <<queryVars, clientVars, funnelVars, realtimeVars, extractVars>>

\* Insert carrying on to the cache update when the store write failed
InsertSwallowingFailure(r) ==
    /\ requests[r].pc = "validated"
    /\ \/ eventsTable' = eventsTable \cup seqToSet(eventIds(r, requests[r].events))
       \/ eventsTable' = eventsTable
    /\ requests' = [requests EXCEPT ![r].pc = "inserted"]
    /\ recentResp' = NoRecent
    /\ UNCHANGED <<recentEvents, ttlSet, emitted, clientTimes, rateLimitMax, totalHits, windowAccepted, overlapped>>
    /\ UNCHANGED <<queryVars, clientVars, funnelVars, realtimeVars, extractVars>>

\* await clickhouse.insert({ table: 'events', values }): one write of all events
\* of the request, or an exception caught by the handler
Insert(r) ==
    /\ requests[r].pc = "validated"
    /\ \/ /\ eventsTable' = eventsTable \cup seqToSet(eventIds(r, requests[r].events))
          /\ requests' = [requests EXCEPT ![r].pc = "inserted"]
       \/ /\ fail500(r)
          /\ eventsTable' = eventsTable
    /\ recentResp' = NoRecent
    /\ UNCHANGED <<recentEvents, ttlSet, emitted, clientTimes, rateLimitMax, totalHits, windowAccepted, overlapped>>
    /\ UNCHANGED <<queryVars, clientVars, funnelVars, realtimeVars, extractVars>>

\* await redis.lpush(cacheKey, JSON.stringify(event))
Lpush(r) ==
    /\ requests[r].kind = "single"
    /\ requests[r].pc = "inserted"
    /\ \/ /\ recentEvents' = lpush(recentEvents, <<r, 1>>)
          /\ requests' = [requests EXCEPT ![r].pc = "pushed"]
       \/ /\ fail500(r)
          /\ recentEvents' = recentEvents
    /\ recentResp' = NoRecent
    /\ UNCHANGED <<eventsTable, ttlSet, emitted, clientTimes, rateLimitMax, totalHits, windowAccepted, overlapped>>
    /\ UNCHANGED <<queryVars, clientVars, funnelVars, realtimeVars, extractVars>>

\* await redis.ltrim(cacheKey, 0, 99)
Ltrim(r) ==
    /\ requests[r].kind = "single"
    /\ requests[r].pc = "pushed"
    /\ \/ /\ recentEvents' = ltrim(recentEvents, RecentKeep - 1)
          /\ requests' = [requests EXCEPT ![r].pc = "trimmed"]
       \/ /\ fail500(r)
          /\ recentEvents' = recentEvents
    /\ recentResp' = NoRecent
    /\ UNCHANGED <<eventsTable, ttlSet, emitted, clientTimes, rateLimitMax, totalHits, windowAccepted, overlapped>>
    /\ UNCHANGED <<queryVars, clientVars, funnelVars, realtimeVars, extractVars>>

\* await redis.expire(cacheKey, 3600)
Expire(r) ==
    /\ requests[r].kind = "single"
    /\ requests[r].pc = "trimmed"
    /\ \/ /\ ttlSet' = (recentEvents # <<>>)
          /\ requests' = [requests EXCEPT ![r].pc = "cached"]
       \/ /\ fail500(r)
          /\ ttlSet' = ttlSet
    /\ recentResp' = NoRecent
    /\ UNCHANGED <<eventsTable, recentEvents, emitted, clientTimes, rateLimitMax, totalHits, windowAccepted, overlapped>>
    /\ UNCHANGED <<queryVars, clientVars, funnelVars, realtimeVars, extractVars>>

\* redis.multi(): lpush of every event, ltrim, expire; await pipeline.exec()
PipelineExec(r) ==
    /\ requests[r].kind = "batch"
    /\ requests[r].pc = "inserted"
    /\ \/ /\ recentEvents' = ltrim(lpushAll(recentEvents, eventIds(r, requests[r].events)), RecentKeep - 1)
          /\ ttlSet' = TRUE
          /\ requests' = [requests EXCEPT ![r].pc = "cached"]
       \/ /\ fail500(r)
          /\ UNCHANGED <<recentEvents, ttlSet>>
    /\ recentResp' = NoRecent
    /\ UNCHANGED <<eventsTable, emitted, clientTimes, rateLimitMax, totalHits, windowAccepted, overlapped>>
    /\ UNCHANGED <<queryVars, clientVars, funnelVars, realtimeVars, extractVars>>

\* realtimeService.broadcastEvent for every event, then res.status(201)
BroadcastAndRespond(r) ==
    /\ requests[r].pc = "cached"
    /\ emitted' = emitted \cup seqToSet(eventIds(r, requests[r].events))
    /\ requests' = [requests EXCEPT ![r].pc = "done",
                                    ![r].resp = [status |-> 201, item |-> 0, key |-> "", count |-> Len(requests[r].events), failedAt |-> ""]]
    /\ windowAccepted' = windowAccepted + Len(requests[r].events)
    /\ recentResp' = NoRecent
    /\ UNCHANGED <<eventsTable, recentEvents, ttlSet, clientTimes, rateLimitMax, totalHits, overlapped>>
    /\ UNCHANGED <<queryVars, clientVars, funnelVars, realtimeVars, extractVars>>

\* the key's expiry (3600 s without a further expire) removes the list
KeyExpires ==
    /\ ttlSet
    /\ recentEvents' = <<>>
    /\ ttlSet' = FALSE
    /\ recentResp' = NoRecent
    /\ UNCHANGED <<requests, eventsTable, emitted, clientTimes, rateLimitMax, totalHits, windowAccepted, overlapped>>
    /\ UNCHANGED <<queryVars, clientVars, funnelVars, realtimeVars, extractVars>>

\* windowMs (one minute) has passed: the counter of the key starts again
WindowExpires ==
    /\ totalHits > 0
    /\ totalHits' = 0
    /\ windowAccepted' = 0
    /\ recentResp' = NoRecent
    /\ UNCHANGED <<requests, eventsTable, recentEvents, ttlSet, emitted, clientTimes, rateLimitMax, overlapped>>
    /\ UNCHANGED <<queryVars, clientVars, funnelVars, realtimeVars, extractVars>>

\* timestamp of a stored event
timestampOf(e) == requests[e[1]].events[e[2]].timestamp

\* SELECT * FROM events WHERE project_id = ... ORDER BY timestamp DESC LIMIT n:
\* the sequences the store may answer (rows of equal timestamp in any order)
storeRecent(n) ==
    LET k == IF Cardinality(eventsTable) < n THEN Cardinality(eventsTable) ELSE n
    IN { q \in [1..k -> eventsTable] :
            /\ \A i, j \in 1..k : i < j => q[i] # q[j] /\ timestampOf(q[i]) >= timestampOf(q[j])
            /\ \A e \in eventsTable \ {q[i] : i \in 1..k} :
                  \A i \in 1..k : timestampOf(q[i]) >= timestampOf(e) }

\* limit query parameters of GET /recent: absent (0), and values around the maximum
RecentLimits == {0, 1, RecentKeep, RecentKeep + 1}

\* Math.min(parseInt(req.query.limit) || 10, 100)
recentLimit(param) ==
    LET asked == IF param = 0 THEN DefaultRecentLimit ELSE param
    IN IF asked < RecentKeep THEN asked ELSE RecentKeep

\* router.get('/recent'): eventRateLimit, redis.lrange(cacheKey, 0, limit - 1),
\* the cached events when there are any, otherwise the store query; 500 when
\* Redis or the store fails
GetRecent ==
    /\ countHit
    /\ \E param \in RecentLimits :
          LET limit == recentLimit(param)
              cachedEvents == SubSeq(recentEvents, 1, IF Len(recentEvents) < limit THEN Len(recentEvents) ELSE limit)
          IN IF rateLimited
             THEN recentResp' = [status |-> 429, source |-> "", limit |-> limit, events |-> <<>>]
             ELSE \/ recentResp' = [status |-> 500, source |-> "", limit |-> limit, events |-> <<>>]
                  \/ /\ Len(cachedEvents) > 0
                     /\ recentResp' = [status |-> 200, source |-> "cache", limit |-> limit, events |-> cachedEvents]
                  \/ /\ Len(cachedEvents) = 0
                     /\ \E q \in storeRecent(limit) :
                           recentResp' = [status |-> 200, source |-> "database", limit |-> limit, events |-> q]
    /\ UNCHANGED <<requests, eventsTable, recentEvents, ttlSet, emitted, clientTimes, rateLimitMax, windowAccepted, overlapped>>
    /\ UNCHANGED <<queryVars, clientVars, funnelVars, realtimeVars, extractVars>>

NextIngest ==
    \/ \E r \in Requests : PostEvent(r)
    \/ \E r \in Requests : PostBatch(r)
    \/ \E r \in Requests : Insert(r)
    \/ \E r \in Requests : Lpush(r)
    \/ \E r \in Requests : Ltrim(r)
    \/ \E r \in Requests : Expire(r)
    \/ \E r \in Requests : PipelineExec(r)
    \/ \E r \in Requests : BroadcastAndRespond(r)
    \/ KeyExpires

\* the gateway with its read endpoint and the rate-limit window
NextGateway ==
    \/ \E r \in Requests : PostEvent(r)
    \/ \E r \in Requests : PostBatch(r)
    \/ \E r \in Requests : Insert(r)
    \/ \E r \in Requests : Lpush(r)
    \/ \E r \in Requests : Ltrim(r)
    \/ \E r \in Requests : Expire(r)
    \/ \E r \in Requests : PipelineExec(r)
    \/ \E r \in Requests : BroadcastAndRespond(r)
    \/ KeyExpires
    \/ WindowExpires
    \/ GetRecent

\* ------------------------------------------------------------------ web SDK event buffer
\* events one Analytics instance creates (the initial page view included)
MaxEvents == 3

\* config.batchSize (20 in the source, scaled to MaxEvents)
BatchSize == 2

\* config.retryAttempts
RetryAttempts == 3

\* config.offlineEnabled
offlineEnabled == TRUE

\* session ids one browser generates (resets and page loads)
MaxSessions == 2

EventIds == 1..MaxEvents

\* user ids the application identifies its user with
UserIds == {"u1"}

\* the arrow functions initialize() registers on window
registeredListeners ==
    [online |-> {"() => this.handleOnline()"},
     offline |-> {"() => this.handleOffline()"},
     beforeunload |-> {"() => this.flush(true) #1"}]

\* window.removeEventListener(type, fn): removes fn when it is registered
removeEventListener(ls, type, fn) == [ls EXCEPT ![type] = ls[type] \ {fn}]

\* JSON.stringify(this.eventQueue)
snapshot(queue, retr) == [i \in 1..Len(queue) |-> [id |-> queue[i], retries |-> retr[queue[i]]]]

inQueue(e) == \E i \in 1..Len(eventQueue) : eventQueue[i] = e

inStorage(e) == \E i \in 1..Len(storage) : storage[i].id = e

isInFlight(e) == \E b \in inFlight : \E i \in 1..Len(b) : b[i] = e

\* the instance after new Analytics(config) in a browser with an empty
\* localStorage: initialize() has tracked and saved the first page view,
\* started the timer, and loadQueuedEvents has read the snapshot back
InitClient ==
    /\ eventQueue = <<1>>
    /\ retries = [e \in EventIds |-> 0]
    /\ isOnline \in BOOLEAN
    /\ storage = <<[id |-> 1, retries |-> 0]>>
    /\ inFlight = {}
    /\ nextId = 2
    /\ loadFlushPending = TRUE
    /\ attempts = [e \in EventIds |-> 0]
    /\ failures = [e \in EventIds |-> 0]
    /\ delivered = [e \in EventIds |-> 0]
    /\ offlineTracked = IF isOnline THEN {} ELSE {1}
    /\ userId = "null"
    /\ sessionId = 1
    /\ timerOn = TRUE
    /\ listeners = registeredListeners
    /\ beaconed = [e \in EventIds |-> 0]
    /\ instance = 1
    /\ resetMark = 1
    /\ destroyed = FALSE
    /\ unloaded = FALSE
    /\ lastStatus = "none"
    /\ storedRows = [e \in EventIds |-> 0]

\* sendEvents up to its await: nothing when offline, otherwise the fetch of
\* the batch is started
sendEvents(events, online) ==
    IF ~online /\ offlineEnabled
    THEN UNCHANGED <<inFlight, attempts>>
    ELSE /\ inFlight' = inFlight \cup {events}
         /\ attempts' = [e \in EventIds |-> IF e \in seqToSet(events) THEN attempts[e] + 1 ELSE attempts[e]]

\* flush() on the queue contents queue: take and clear, then sendEvents
flush(queue, online) ==
    IF queue = <<>>
    THEN /\ eventQueue' = queue
         /\ UNCHANGED <<inFlight, attempts>>
    ELSE /\ eventQueue' = <<>>
         /\ sendEvents(queue, online)

\* track(): push, flush when the batch size is reached, save the queue
Track ==
    /\ ~unloaded
    /\ nextId <= MaxEvents
    /\ IF Len(eventQueue) + 1 >= BatchSize
       THEN flush(Append(eventQueue, nextId), isOnline)
       ELSE /\ eventQueue' = Append(eventQueue, nextId)
            /\ UNCHANGED <<inFlight, attempts>>
    /\ nextId' = nextId + 1
    /\ storage' = IF offlineEnabled THEN snapshot(eventQueue', retries) ELSE storage
    /\ offlineTracked' = IF isOnline THEN offlineTracked ELSE offlineTracked \cup {nextId}
    /\ UNCHANGED <<retries, isOnline, loadFlushPending, failures, delivered>>
    /\ UNCHANGED lifeVars
    /\ lastStatus' = "none"
    /\ UNCHANGED <<queryVars, ingestVars, funnelVars, realtimeVars, extractVars>>

\* the setInterval callback of startPeriodicFlush
TimerTick ==
    /\ ~unloaded
    /\ timerOn
    /\ eventQueue # <<>>
    /\ flush(eventQueue, isOnline)
    /\ UNCHANGED <<retries, isOnline, storage, nextId, loadFlushPending, failures, delivered, offlineTracked>>
    /\ UNCHANGED lifeVars
    /\ lastStatus' = "none"
    /\ UNCHANGED <<queryVars, ingestVars, funnelVars, realtimeVars, extractVars>>

\* the flush that loadQueuedEvents scheduled
LoadFlush ==
    /\ ~unloaded
    /\ loadFlushPending
    /\ loadFlushPending' = FALSE
    /\ flush(eventQueue, isOnline)
    /\ UNCHANGED <<retries, isOnline, storage, nextId, failures, delivered, offlineTracked>>
    /\ UNCHANGED lifeVars
    /\ lastStatus' = "none"
    /\ UNCHANGED <<queryVars, ingestVars, funnelVars, realtimeVars, extractVars>>

\* handleOnline(): isOnline = true, then flush when the queue is not empty
HandleOnline ==
    /\ ~unloaded
    /\ listeners.online # {}
    /\ ~isOnline
    /\ isOnline' = TRUE
    /\ flush(eventQueue, TRUE)
    /\ offlineTracked' = {}
    /\ UNCHANGED <<retries, storage, nextId, loadFlushPending, failures, delivered>>
    /\ UNCHANGED lifeVars
    /\ lastStatus' = "none"
    /\ UNCHANGED <<queryVars, ingestVars, funnelVars, realtimeVars, extractVars>>

\* handleOffline()
HandleOffline ==
    /\ ~unloaded
    /\ listeners.offline # {}
    /\ isOnline
    /\ isOnline' = FALSE
    /\ UNCHANGED <<eventQueue, retries, storage, inFlight, nextId, loadFlushPending, attempts, failures, delivered, offlineTracked>>
    /\ UNCHANGED lifeVars
    /\ lastStatus' = "none"
    /\ UNCHANGED <<queryVars, ingestVars, funnelVars, realtimeVars, extractVars>>

\* sendEvents after the fetch answered ok: saveQueuedEvents
FetchOk(b) ==
    /\ ~unloaded
    /\ b \in inFlight
    /\ inFlight' = inFlight \ {b}
    /\ delivered' = [e \in EventIds |-> IF e \in seqToSet(b) THEN delivered[e] + 1 ELSE delivered[e]]
    /\ storage' = IF offlineEnabled THEN snapshot(eventQueue, retries) ELSE storage
    /\ UNCHANGED <<eventQueue, retries, isOnline, nextId, loadFlushPending, attempts, failures, offlineTracked>>
    /\ UNCHANGED lifeVars
    /\ lastStatus' = "none"
    /\ UNCHANGED <<queryVars, ingestVars, funnelVars, realtimeVars, extractVars>>

\* retriableEvents with <= in place of <
retriableEventsInclusive(events) == SelectSeq(events, LAMBDA e : retries[e] <= RetryAttempts)

\* events.filter(event => event.retries < this.config.retryAttempts)
retriableEvents(events) == SelectSeq(events, LAMBDA e : retries[e] < RetryAttempts)

\* the catch with push in place of unshift: requeue at the back
FetchFailedRequeueAtBack(b) ==
    /\ ~unloaded
    /\ b \in inFlight
    /\ inFlight' = inFlight \ {b}
    /\ failures' = [e \in EventIds |-> IF e \in seqToSet(b) THEN failures[e] + 1 ELSE failures[e]]
    /\ retries' = [e \in EventIds |-> IF e \in seqToSet(retriableEvents(b)) THEN retries[e] + 1 ELSE retries[e]]
    /\ eventQueue' = eventQueue \o retriableEvents(b)
    /\ storage' = IF offlineEnabled THEN snapshot(eventQueue', retries') ELSE storage
    /\ UNCHANGED <<isOnline, nextId, loadFlushPending, attempts, delivered, offlineTracked>>
    /\ UNCHANGED lifeVars
    /\ lastStatus' = "none"
    /\ UNCHANGED <<queryVars, ingestVars, funnelVars, realtimeVars, extractVars>>

\* the catch of sendEvents (network error or a response that is not ok):
\* requeue the retriable events at the front with retries++, save
FetchFailed(b) ==
    /\ ~unloaded
    /\ b \in inFlight
    /\ inFlight' = inFlight \ {b}
    /\ failures' = [e \in EventIds |-> IF e \in seqToSet(b) THEN failures[e] + 1 ELSE failures[e]]
    /\ retries' = [e \in EventIds |-> IF e \in seqToSet(retriableEvents(b)) THEN retries[e] + 1 ELSE retries[e]]
    /\ eventQueue' = retriableEvents(b) \o eventQueue
    /\ storage' = IF offlineEnabled THEN snapshot(eventQueue', retries') ELSE storage
    /\ UNCHANGED <<isOnline, nextId, loadFlushPending, attempts, delivered, offlineTracked>>
    /\ UNCHANGED lifeVars
    /\ lastStatus' = "none"
    /\ UNCHANGED <<queryVars, ingestVars, funnelVars, realtimeVars, extractVars>>

\* what the fetch of a batch can end with: the status of the gateway's
\* response (201 accepted, 400 validation error, 429 rate limited, 500) or
\* a rejected fetch
FetchOutcomes == {"201", "400", "429", "500", "network error"}

\* response.ok: a status from 200 to 299
responseOk(outcome) == outcome = "201"

\* rows per event are counted up to this number
MaxRowsCounted == 2

\* POST /batch inserting the events of batch b: clickhouse.insert adds one
\* row per event of the request body, which carries no event id
insertRows(b) ==
    [e \in EventIds |-> IF e \in seqToSet(b) /\ storedRows[e] < MaxRowsCounted
                        THEN storedRows[e] + 1 ELSE storedRows[e]]

\* what POST /batch did to the events table when the fetch ends with
\* outcome: 201 follows the insert; 400 and 429 are answered before it;
\* 500 is the catch, after a failed insert or after the insert when the
\* cache pipeline failed; a rejected fetch may have reached the gateway or not
rowsAfter(b, outcome) ==
    CASE outcome = "201" -> {insertRows(b)}
      [] outcome \in {"400", "429"} -> {storedRows}
      [] OTHER -> {storedRows, insertRows(b)}

\* sendEvents after its fetch settled with outcome: on a response that is
\* ok saveQueuedEvents; on any other response the throw of
\* `HTTP ${response.status}`, which like a rejected fetch lands in the catch:
\* requeue the retriable events at the front with retries++, save
FetchAnswered(b, outcome) ==
    /\ ~unloaded
    /\ b \in inFlight
    /\ inFlight' = inFlight \ {b}
    /\ lastStatus' = outcome
    /\ storedRows' \in rowsAfter(b, outcome)
    /\ IF responseOk(outcome)
       THEN /\ delivered' = [e \in EventIds |-> IF e \in seqToSet(b) THEN delivered[e] + 1 ELSE delivered[e]]
            /\ storage' = IF offlineEnabled THEN snapshot(eventQueue, retries) ELSE storage
            /\ UNCHANGED <<eventQueue, retries, failures>>
       ELSE /\ failures' = [e \in EventIds |-> IF e \in seqToSet(b) THEN failures[e] + 1 ELSE failures[e]]
            /\ retries' = [e \in EventIds |-> IF e \in seqToSet(retriableEvents(b)) THEN retries[e] + 1 ELSE retries[e]]
            /\ eventQueue' = retriableEvents(b) \o eventQueue
            /\ storage' = IF offlineEnabled THEN snapshot(eventQueue', retries') ELSE storage
            /\ delivered' = delivered
    /\ UNCHANGED <<isOnline, nextId, loadFlushPending, attempts, offlineTracked>>
    /\ UNCHANGED <<userId, sessionId, timerOn, listeners, beaconed, instance, resetMark, destroyed, unloaded>>
    /\ UNCHANGED <<queryVars, ingestVars, funnelVars, realtimeVars, extractVars>>

\* sendEventsSync: navigator.sendBeacon (or the synchronous XHR) with the batch
sendEventsSync(events) ==
    beaconed' = [e \in EventIds |-> IF e \in seqToSet(events) THEN beaconed[e] + 1 ELSE beaconed[e]]

\* flush(true): take and clear, sendEvents, then sendEventsSync with the same batch
flushSync(queue, online) ==
    /\ flush(queue, online)
    /\ IF queue = <<>> THEN beaconed' = beaconed ELSE sendEventsSync(queue)

\* setUserId(userId)
SetUserId ==
    /\ ~unloaded
    /\ \E u \in UserIds : userId' = u
    /\ userId' # userId
    /\ UNCHANGED <<eventQueue, retries, isOnline, storage, inFlight, nextId, loadFlushPending, attempts, failures, delivered, offlineTracked>>
    /\ UNCHANGED <<sessionId, timerOn, listeners, beaconed, instance, resetMark, destroyed, unloaded, storedRows>>
    /\ lastStatus' = "none"
    /\ UNCHANGED <<queryVars, ingestVars, funnelVars, realtimeVars, extractVars>>

\* the page is closed or left: the beforeunload listener of initialize()
\* runs this.flush(true), then the page and its callbacks are gone
BeforeUnload ==
    /\ ~unloaded
    /\ unloaded' = TRUE
    /\ IF listeners.beforeunload # {}
       THEN flushSync(eventQueue, isOnline)
       ELSE UNCHANGED <<eventQueue, inFlight, attempts, beaconed>>
    /\ UNCHANGED <<retries, isOnline, storage, nextId, loadFlushPending, failures, delivered, offlineTracked>>
    /\ UNCHANGED <<userId, sessionId, timerOn, listeners, instance, resetMark, destroyed, storedRows>>
    /\ lastStatus' = "none"
    /\ UNCHANGED <<queryVars, ingestVars, funnelVars, realtimeVars, extractVars>>

\* destroy(): clearInterval, flush(true), removeEventListener with
\* this.handleOnline, this.handleOffline and a new arrow function
Destroy ==
    /\ ~unloaded
    /\ ~destroyed
    /\ destroyed' = TRUE
    /\ timerOn' = FALSE
    /\ flushSync(eventQueue, isOnline)
    /\ listeners' = removeEventListener(
                        removeEventListener(
                           removeEventListener(listeners, "online", "this.handleOnline"),
                           "offline", "this.handleOffline"),
                        "beforeunload", "() => this.flush(true) #2")
    /\ UNCHANGED <<retries, isOnline, storage, nextId, loadFlushPending, failures, delivered, offlineTracked>>
    /\ UNCHANGED <<userId, sessionId, instance, resetMark, unloaded, storedRows>>
    /\ lastStatus' = "none"
    /\ UNCHANGED <<queryVars, ingestVars, funnelVars, realtimeVars, extractVars>>

\* reset(): anonymous user, new session id, empty queue, snapshot removed
Reset ==
    /\ ~unloaded
    /\ sessionId < MaxSessions
    /\ userId' = "null"
    /\ sessionId' = sessionId + 1
    /\ eventQueue' = <<>>
    /\ storage' = IF offlineEnabled THEN <<>> ELSE storage
    /\ resetMark' = nextId
    /\ offlineTracked' = {}
    /\ UNCHANGED <<retries, isOnline, inFlight, nextId, loadFlushPending, attempts, failures, delivered>>
    /\ UNCHANGED <<timerOn, listeners, beaconed, instance, destroyed, unloaded, storedRows>>
    /\ lastStatus' = "none"
    /\ UNCHANGED <<queryVars, ingestVars, funnelVars, realtimeVars, extractVars>>

\* the page is loaded again and new Analytics(config) runs with the
\* localStorage the previous instance left: the constructor, then initialize():
\* listeners, trackPageView (track: push, flush at the batch size, save),
\* startPeriodicFlush, loadQueuedEvents. The previous instance and the
\* callbacks of its requests are gone.
Restart ==
    /\ nextId <= MaxEvents
    /\ sessionId < MaxSessions
    /\ instance' = instance + 1
    /\ userId' = "null"
    /\ sessionId' = sessionId + 1
    /\ listeners' = registeredListeners
    /\ timerOn' = TRUE
    /\ destroyed' = FALSE
    /\ unloaded' = FALSE
    /\ nextId' = nextId + 1
    /\ LET pageView == <<nextId>>
           tracked == IF Len(pageView) >= BatchSize THEN <<>> ELSE pageView
           saved == IF offlineEnabled THEN snapshot(tracked, retries) ELSE storage
           loaded == [i \in 1..Len(saved) |-> saved[i].id]
       IN /\ storage' = saved
          /\ eventQueue' = loaded
          /\ loadFlushPending' = (Len(loaded) > 0)
          /\ IF Len(pageView) >= BatchSize /\ isOnline
             THEN /\ inFlight' = {pageView}
                  /\ attempts' = [attempts EXCEPT ![nextId] = 1]
             ELSE /\ inFlight' = {}
                  /\ attempts' = attempts
    /\ offlineTracked' = IF isOnline THEN {} ELSE {nextId}
    /\ UNCHANGED <<retries, isOnline, failures, delivered, beaconed, resetMark, storedRows>>
    /\ lastStatus' = "none"
    /\ UNCHANGED <<queryVars, ingestVars, funnelVars, realtimeVars, extractVars>>

NextClient ==
    \/ Track
    \/ TimerTick
    \/ LoadFlush
    \/ HandleOnline
    \/ HandleOffline
    \/ \E b \in inFlight : FetchOk(b)
    \/ \E b \in inFlight : FetchFailed(b)

\* ------------------------------------------------------------------ request body of the web SDK
HexChars == {"0", "1", "2", "3", "4", "5", "6", "7", "8", "9", "a", "b", "c", "d", "e", "f", "A", "B", "C", "D", "E", "F"}

\* length of a UUID in its text form, and where its hyphens are
UuidLength == 36

UuidHyphens == {9, 14, 19, 24}

\* Joi.string().uuid(): 8-4-4-4-12 hexadecimal digits
isUuid(text) ==
    /\ Len(text) = UuidLength
    /\ \A i \in 1..Len(text) : IF i \in UuidHyphens THEN text[i] = "-" ELSE text[i] \in HexChars

\* Date.now() of the n-th generated session id, in decimal digits
dateNowDigits(n) == <<"1", "7", "6", "2", "3", "9", "8", "0", "0", "0", "0", "0">> \o <<CHOOSE d \in {"1", "2", "3", "4", "5", "6", "7", "8", "9"} : d = ToString(n)>>

\* Math.random().toString(36).substr(2, 9)
randomDigits36 == <<"k", "3", "f", "9", "z", "0", "q", "a", "7">>

\* generateSessionId(): 'session_' + Date.now() + '_' + Math.random().toString(36).substr(2, 9)
generateSessionId(n) ==
    <<"s", "e", "s", "s", "i", "o", "n", "_">> \o dateNowDigits(n) \o <<"_">> \o randomDigits36

\* user_id of track(): this.userId || 'anonymous_' + this.sessionId
trackUserId ==
    IF userId = "null"
    THEN <<"a", "n", "o", "n", "y", "m", "o", "u", "s", "_">> \o generateSessionId(sessionId)
    ELSE <<userId>>

\* the event object track() builds, as POST /batch receives it (id and
\* retries removed): what eventSchema looks at
trackPayload ==
    [user_id |-> IF isUuid(trackUserId) THEN "uuid" ELSE "text",
     event_name |-> NameMin,
     properties |-> "scalar",
     session_id |-> IF isUuid(generateSessionId(sessionId)) THEN "uuid" ELSE "text",
     platform |-> "web",
     timestamp |-> 1]

\* body.events of the request sendEvents makes for batch b
requestBody(b) == [i \in 1..Len(b) |-> trackPayload]

\* the instance with the outcome of every fetch told apart, while the
\* connectivity does not change
NextDelivery ==
    \/ Track
    \/ TimerTick
    \/ LoadFlush
    \/ \E b \in inFlight : \E outcome \in FetchOutcomes : FetchAnswered(b, outcome)

\* the instance with its teardown: page unload and destroy()
NextTeardown ==
    \/ Track
    \/ TimerTick
    \/ LoadFlush
    \/ HandleOnline
    \/ HandleOffline
    \/ \E b \in inFlight : FetchOk(b)
    \/ \E b \in inFlight : FetchFailed(b)
    \/ BeforeUnload
    \/ Destroy

\* the instance with its identity and reset()
NextReset ==
    \/ Track
    \/ TimerTick
    \/ LoadFlush
    \/ HandleOnline
    \/ HandleOffline
    \/ \E b \in inFlight : FetchOk(b)
    \/ \E b \in inFlight : FetchFailed(b)
    \/ SetUserId
    \/ Reset

\* instances of successive page loads sharing one localStorage
NextRestart ==
    \/ Track
    \/ TimerTick
    \/ LoadFlush
    \/ HandleOnline
    \/ HandleOffline
    \/ \E b \in inFlight : FetchOk(b)
    \/ \E b \in inFlight : FetchFailed(b)
    \/ BeforeUnload
    \/ Restart

NextQueryService ==
    \/ PostQuery
    \/ BuildContext
    \/ GenerateSQL
    \/ Validate
    \/ Execute
    \/ AttachInsights
    \/ Respond

\* ------------------------------------------------------------------ Analytics routes: GET /funnel
MaxSteps == 3

\* at least this many events in a funnel
MinFunnelEvents == 2

\* distinct-user counts the store can report for a step
UserCounts == {0, 1, 3, 45, 300, 1000}

StepNames == <<"signup", "activate", "purchase", "renew">>

NoFunnelResp == [status |-> 0, funnel |-> <<>>]

InitFunnel ==
    /\ funnelEvents = <<>>
    /\ funnelStore = <<>>
    /\ funnelResp = NoFunnelResp

\* JavaScript values of the handler: an object with its properties, a Promise
\* with the value it resolves to, or undefined
Undefined == [type |-> "undefined"]

objectOf(props) == [type |-> "object", props |-> props]

promiseOf(value) == [type |-> "promise", value |-> value]

\* the row the funnel query selects: one step_<i>_users column per step
funnelRow(counts) == objectOf(counts)

\* result.json() of the ClickHouse client: a Promise of the array of rows
json(rows) == promiseOf(rows)

\* value[0]: a Promise object has no property 0
elementZero(value) == IF value.type = "array" /\ value.items # <<>> THEN value.items[1] ELSE Undefined

\* await value: the value a Promise resolves to, any other value as it is
await(value) == IF value.type = "promise" THEN value.value ELSE value

\* value || {}
orEmptyObject(value) == IF value.type = "undefined" THEN objectOf(<<>>) ELSE value

\* const rawData = await result.json()[0] || {}
rawDataOf(rows) == orEmptyObject(await(elementZero(json(rows))))

\* a number property of rawData; NoNumber stands for undefined
NoNumber == -1

usersColumn(rawData, step) == IF step \in DOMAIN rawData.props THEN rawData.props[step] ELSE NoNumber

\* rawData[`step_${index + 1}_users`] || 0
stepUsersOf(rawData, step) ==
    IF usersColumn(rawData, step) = NoNumber THEN 0 ELSE usersColumn(rawData, step)

\* index > 0 ? rawData[`step_${index}_users`] : stepUsers
previousStepUsersOf(rawData, step) ==
    IF step > 1 THEN usersColumn(rawData, step - 1) ELSE stepUsersOf(rawData, step)

\* Math.round(x * 100) / 100 of the percentage x = users / previous * 100,
\* in hundredths of a percent (100 % is 10000); Math.round rounds a half up
roundedPercent(users, previous) == (2 * users * 10000 + previous) \div (2 * previous)

\* previousStepUsers > 0 ? (stepUsers / previousStepUsers) * 100 : 0, rounded
conversionRateOf(rawData, step) ==
    IF previousStepUsersOf(rawData, step) > 0
    THEN roundedPercent(stepUsersOf(rawData, step), previousStepUsersOf(rawData, step))
    ELSE 0

funnelData(events, rawData) ==
    [i \in 1..Len(events) |->
        [step |-> i,
         event_name |-> events[i],
         users |-> stepUsersOf(rawData, i),
         conversion_rate |-> conversionRateOf(rawData, i)]]

\* GET /funnel with the step names events while the store holds counts users
\* per step: 400 below two events, otherwise the query and the funnel data
GetFunnel ==
    \E n \in 0..MaxSteps :
      \E counts \in [1..n -> UserCounts] :
        /\ funnelEvents' = SubSeq(StepNames, 1, n)
        /\ funnelStore' = counts
        /\ IF Len(funnelEvents') < MinFunnelEvents
           THEN funnelResp' = [status |-> 400, funnel |-> <<>>]
           ELSE funnelResp' = [status |-> 200,
                               funnel |-> funnelData(funnelEvents', rawDataOf(<<funnelRow(counts)>>))]
        /\ UNCHANGED <<queryVars, ingestVars, clientVars, realtimeVars, extractVars>>

\* GET /funnel when clickhouse.query or result.json rejects: the catch
GetFunnelFails ==
    \E n \in MinFunnelEvents..MaxSteps :
      \E counts \in [1..n -> UserCounts] :
        /\ funnelEvents' = SubSeq(StepNames, 1, n)
        /\ funnelStore' = counts
        /\ funnelResp' = [status |-> 500, funnel |-> <<>>]
        /\ UNCHANGED <<queryVars, ingestVars, clientVars, realtimeVars, extractVars>>

NextFunnel ==
    \/ GetFunnel
    \/ GetFunnelFails

\* ------------------------------------------------------------------ Realtime service
\* events broadcast in one behaviour
MaxPublished == 1

\* join_project messages one connection sends
MaxJoins == 2

Sockets == {"s1", "s2"}

DashboardIds == {"T1"}

\* JSON.stringify(filters) of the subscribe_events messages
Filters == {"{}"}

\* `project_${projectId}`, `dashboard_${dashboardId}` and
\* `events_${JSON.stringify(filters)}`: the prefix and the text that follows it
projectRoom(pid) == <<"project_", pid>>

dashboardRoom(dashboardId) == <<"dashboard_", dashboardId>>

eventsRoom(filters) == <<"events_", filters>>

InitRealtime ==
    /\ connectedClients = {}
    /\ rooms = [s \in Sockets |-> {}]
    /\ joinLog = [s \in Sockets |-> <<>>]
    /\ published = <<>>
    /\ received = [s \in Sockets |-> <<>>]

\* socket.join(room): socket.rooms is a Set, adding a member twice adds it once
join(s, room) == [rooms EXCEPT ![s] = rooms[s] \cup {room}]

\* io.on('connection'): the socket is registered (socket.io puts it into the
\* room named by its own id)
Connect(s) ==
    /\ s \notin connectedClients
    /\ connectedClients' = connectedClients \cup {s}
    /\ rooms' = [rooms EXCEPT ![s] = {<<s>>}]
    /\ joinLog' = [joinLog EXCEPT ![s] = <<>>]
    /\ UNCHANGED <<published, received>>
    /\ UNCHANGED <<queryVars, ingestVars, clientVars, funnelVars, extractVars>>

\* socket.on('join_project')
JoinProject(s, pid) ==
    /\ s \in connectedClients
    /\ Len(joinLog[s]) < MaxJoins
    /\ rooms' = join(s, projectRoom(pid))
    /\ joinLog' = [joinLog EXCEPT ![s] = Append(joinLog[s], pid)]
    /\ UNCHANGED <<connectedClients, published, received>>
    /\ UNCHANGED <<queryVars, ingestVars, clientVars, funnelVars, extractVars>>

\* socket.on('join_dashboard')
JoinDashboard(s, dashboardId) ==
    /\ s \in connectedClients
    /\ dashboardRoom(dashboardId) \notin rooms[s]
    /\ rooms' = join(s, dashboardRoom(dashboardId))
    /\ UNCHANGED <<connectedClients, joinLog, published, received>>
    /\ UNCHANGED <<queryVars, ingestVars, clientVars, funnelVars, extractVars>>

\* socket.on('subscribe_events')
SubscribeEvents(s, filters) ==
    /\ s \in connectedClients
    /\ eventsRoom(filters) \notin rooms[s]
    /\ rooms' = join(s, eventsRoom(filters))
    /\ UNCHANGED <<connectedClients, joinLog, published, received>>
    /\ UNCHANGED <<queryVars, ingestVars, clientVars, funnelVars, extractVars>>

\* socket.on('disconnect'): socket.io has taken the socket out of its rooms
Disconnect(s) ==
    /\ s \in connectedClients
    /\ connectedClients' = connectedClients \ {s}
    /\ rooms' = [rooms EXCEPT ![s] = {}]
    /\ joinLog' = [joinLog EXCEPT ![s] = <<>>]
    /\ UNCHANGED <<published, received>>
    /\ UNCHANGED <<queryVars, ingestVars, clientVars, funnelVars, extractVars>>

\* io.emit(...): every connected socket
everySocket(room) == connectedClients

\* io.to(room): the sockets that are in the room
socketsIn(room) == {s \in Sockets : room \in rooms[s]}

\* broadcastEvent(projectId, event): io.to(`project_${projectId}`).emit('new_event', ...)
BroadcastEvent(pid) ==
    /\ Len(published) < MaxPublished
    /\ LET event == [id |-> Len(published) + 1, project |-> pid]
       IN /\ published' = Append(published, event)
          /\ received' = [s \in Sockets |->
                            IF s \in socketsIn(projectRoom(pid))
                            THEN Append(received[s], event)
                            ELSE received[s]]
    /\ UNCHANGED <<connectedClients, rooms, joinLog>>
    /\ UNCHANGED <<queryVars, ingestVars, clientVars, funnelVars, extractVars>>

NextRealtime ==
    \/ \E s \in Sockets : Connect(s)
    \/ \E s \in Sockets, pid \in Tenants : JoinProject(s, pid)
    \/ \E s \in Sockets, dashboardId \in DashboardIds : JoinDashboard(s, dashboardId)
    \/ \E s \in Sockets, filters \in Filters : SubscribeEvents(s, filters)
    \/ \E s \in Sockets : Disconnect(s)
    \/ \E pid \in Tenants : BroadcastEvent(pid)

\* ------------------------------------------------------------------ extractSQL on responses holding one query
\* words after SELECT in a query
MaxQueryWords == 2

QueryWords == { kwProjectId, tenantFilter("T1"), <<"c", "r", "e", "a", "t", "e", "d", "_", "a", "t">> }

SelectWords == { <<"S", "E", "L", "E", "C", "T">>, kwSelect }

\* one SELECT query, without its semicolon
Queries ==
    { joinWords(<<w>> \o ws) : w \in SelectWords, ws \in UNION {[1..n -> QueryWords] : n \in 1..MaxQueryWords} }

\* how the model response presents the query
Wrappings == {"bare", "sql fence", "plain fence", "prose and sql fence", "prose then query"}

prose == <<"H", "e", "r", "e", " ", "i", "s", " ", "i", "t", ":", NL>>

\* the model response that presents query q, with or without a semicolon
wrappedResponse(wrapping, q, semicolon) ==
    LET text == IF semicolon THEN q \o <<";">> ELSE q
    IN CASE wrapping = "sql fence" -> fenceSql \o text \o fenceClose
         [] wrapping = "plain fence" -> fencePlain \o text \o fenceClose
         [] wrapping = "prose and sql fence" -> prose \o fenceSql \o text \o fenceClose
         [] wrapping = "prose then query" -> prose \o text
         [] OTHER -> text

NoExtraction == [query |-> <<>>, raw |-> <<>>, done |-> FALSE, out |-> <<>>]

\* no response under extraction
InitExtractIdle == extraction = NoExtraction

\* a model response holding one SELECT query
InitExtract ==
    \E wrapping \in Wrappings, q \in Queries, semicolon \in BOOLEAN :
        extraction = [query |-> q, raw |-> wrappedResponse(wrapping, q, semicolon), done |-> FALSE, out |-> <<>>]

\* generateSQL: return this.extractSQL(response.content[0].text)
ExtractSQL ==
    /\ ~extraction.done
    /\ extraction' = [extraction EXCEPT !.done = TRUE, !.out = extractSQL(extraction.raw)]
    /\ UNCHANGED <<queryVars, ingestVars, clientVars, funnelVars, realtimeVars>>

NextExtract == ExtractSQL

vars == <<queryVars, ingestVars, clientVars, funnelVars, realtimeVars, extractVars>>

Init == InitQuery /\ InitIngest /\ InitClient /\ InitFunnel /\ InitRealtime /\ InitExtractIdle

\* the services do not depend on the state of a browser
InitServices == Init /\ isOnline

SpecQuery == InitServices /\ [][NextQueryService]_vars

SpecIngest == InitServices /\ [][NextIngest]_vars

\* all services, the gateway with a rate limit set and free client timestamps
InitGatewayServices == InitQuery /\ InitGateway /\ InitClient /\ InitFunnel /\ InitRealtime /\ InitExtractIdle /\ isOnline

SpecGateway == InitGatewayServices /\ [][NextGateway]_vars

SpecClient == Init /\ [][NextClient]_vars

SpecFunnel == InitServices /\ [][NextFunnel]_vars

SpecRealtime == InitServices /\ [][NextRealtime]_vars

\* extractSQL on every response of InitExtract
InitExtraction == InitQuery /\ InitIngest /\ InitClient /\ InitFunnel /\ InitRealtime /\ InitExtract /\ isOnline

SpecExtract == InitExtraction /\ [][NextExtract]_vars

SpecDelivery == Init /\ [][NextDelivery]_vars

SpecTeardown == Init /\ [][NextTeardown]_vars

SpecReset == Init /\ [][NextReset]_vars

SpecRestart == Init /\ [][NextRestart]_vars

\* ------------------------------------------------------------------ Query Service properties
\* the text holds a condition restricting project_id to some tenant
hasTenantFilter(text) == \E t \in Tenants : includes(text, tenantFilter(t))

\* kw occurs in the text in some letter case
containsAnyCase(text, kw) ==
    \E i \in 1..(Len(text) - Len(kw) + 1) : \A j \in 1..Len(kw) : lowerChar(text[i + j - 1]) = kw[j]

MutatingKeywords == {kwInsert, kwUpdate, kwDelete, kwDrop, kwAlter, kwCreate}

hasMutatingKeyword(text) == \E kw \in MutatingKeywords : containsAnyCase(text, kw)

\* the text starts with the word w, in any letter case
startsWith(text, w) == Len(text) >= Len(w) /\ toLowerCase(SubSeq(text, 1, Len(w))) = w

\* the text is a statement of a kind other than SELECT whose verb is none of
\* the six mutating keywords
isOtherStatement(text) == startsWith(text, <<"t", "r", "u", "n", "c", "a", "t", "e">>)

\* C1: every query that validation accepts has an explicit tenant-scope
\* filter (a condition restricting project_id); naming the column is not enough
C1_UnscopedQueryRejected == validation.isValid => hasTenantFilter(validation.text)

\* C2: a query executed for the requesting tenant does not filter on another
\* tenant's id; such a query is rejected before execution
C2_ExecutedQueryScopedToRequester ==
    (executed.called /\ result.hasData) =>
        \A t \in Tenants \ {projectId} : ~includes(executed.sql, tenantFilter(t))

\* C3: a generated query that contains insert, update, delete, drop, alter or
\* create, in any letter case and at any position, is rejected by validation:
\* it is never accepted and never executed
C3_MutatingKeywordRejected ==
    hasMutatingKeyword(sql) =>
        /\ stage \notin {"Validated", "Executed", "ExecutionFailed", "InsightsAttached"}
        /\ ~executed.called
        /\ validation.text = sql => ~validation.isValid

\* C3 witness: a query rejected only for a mutating keyword, here inside a
\* string literal and in mixed case
C3_Witness ==
    /\ stage = "Rejected"
    /\ validation.errors = <<"Dangerous operation detected: DELETE">>
    /\ includes(sql, <<"'", "D", "e", "l", "e", "t", "e", "d", "'">>)

\* C4: a query passes validation only if it is a SELECT statement: a
\* statement of another kind is rejected, also when its text contains the
\* word select and none of the six mutating keywords
C4_OnlySelectStatementsPass ==
    isOtherStatement(validation.text) => ~validation.isValid

QueryPaths ==
    { <<"Received", "ContextBuilt", "QueryGenerated", "Validated", "Executed", "InsightsAttached", "Returned">>,
      <<"Received", "ContextBuilt", "QueryGenerated", "Validated", "ExecutionFailed", "Returned">>,
      <<"Received", "ContextBuilt", "QueryGenerated", "Rejected", "Returned">>,
      <<"Received", "ContextBuilt", "GenerationFailed", "Returned">> }

\* C5: the query is executed only after validation accepted that same text;
\* after a rejection the result carries the rejected text and the error and
\* the execute step is never reached; the steps of a request follow the
\* pipeline order with none skipped
C5_ExecuteOnlyAfterValidation ==
    /\ executed.called =>
          /\ validation.isValid
          /\ validation.text = executed.sql
          /\ executed.sql = sql
    /\ "Rejected" \in seqToSet(trace) =>
          /\ ~executed.called
          /\ result.sql = sql
          /\ sql # <<>>
          /\ result.error # ""
          /\ seqToSet(trace) \cap {"Validated", "Executed", "ExecutionFailed"} = {}
    /\ \E path \in QueryPaths : Len(trace) <= Len(path) /\ trace = SubSeq(path, 1, Len(trace))

\* C5 witness: a request whose query was rejected has been answered with the
\* rejected text
C5_Witness ==
    /\ stage = "Returned"
    /\ "Rejected" \in seqToSet(trace)
    /\ response.status = 400
    /\ response.sql = sql
    /\ sql # <<>>

\* C10: a successful execution returns at most 1000 rows
C10_RowCap ==
    (stage \in {"Executed", "InsightsAttached"} \/ (stage = "Returned" /\ response.status = 200))
        => result.rows <= DefaultCap

\* ------------------------------------------------------------------ Ingestion Gateway properties
hasInvalidEvent(evs) == \E i \in 1..Len(evs) : eventSchema(evs[i]) # ""

eventsOf(r) == {<<r, i>> : i \in 1..Len(requests[r].events)}

\* C6: a batch with an invalid event is rejected as a whole: none of its
\* events is stored, cached or broadcast, and the 400 response names an
\* invalid item and its failing key
C6_BatchAllOrNothing ==
    \A r \in Requests :
        (requests[r].kind = "batch" /\ hasInvalidEvent(requests[r].events)) =>
            /\ eventsOf(r) \cap eventsTable = {}
            /\ eventsOf(r) \cap seqToSet(recentEvents) = {}
            /\ eventsOf(r) \cap emitted = {}
            /\ requests[r].resp.status = 400
            /\ requests[r].resp.item \in 1..Len(requests[r].events)
            /\ eventSchema(requests[r].events[requests[r].resp.item]) = requests[r].resp.key
            /\ requests[r].resp.key # ""

\* C6 witness: a batch of a valid event followed by an invalid one was
\* answered 400 naming item 2, while another request's event is stored
C6_Witness ==
    \E r \in Requests :
        /\ requests[r].kind = "batch"
        /\ Len(requests[r].events) = 2
        /\ eventSchema(requests[r].events[1]) = ""
        /\ eventSchema(requests[r].events[2]) # ""
        /\ requests[r].resp.status = 400
        /\ requests[r].resp.item = 2
        /\ eventsTable # {}

allAcknowledged ==
    \A r \in Requests : requests[r].pc = "idle" \/ (requests[r].pc = "done" /\ requests[r].resp.status = 201)

\* the events of requests r .. MaxRequests in the order they were ingested,
\* for handlers that ran one after the other
RECURSIVE ingestedFrom(_)
ingestedFrom(r) ==
    IF r > MaxRequests THEN <<>>
    ELSE (IF requests[r].resp.status = 201 THEN eventIds(r, requests[r].events) ELSE <<>>)
         \o ingestedFrom(r + 1)

\* the n most recently ingested events
latestIngested(n) ==
    LET all == ingestedFrom(1)
    IN {all[i] : i \in {j \in 1..Len(all) : j > Len(all) - n}}

descendingByTimestamp(q) ==
    \A i, j \in 1..Len(q) : i < j => timestampOf(q[i]) >= timestampOf(q[j])

\* C11: after more than RecentKeep (100 in the source) sequential ingests,
\* all acknowledged, recent(tenant, RecentKeep) returns exactly the RecentKeep
\* most recently ingested events, in descending timestamp order
C11_RecentReturnsLatestByTimestamp ==
    (/\ recentResp.status = 200
     /\ recentResp.limit = RecentKeep
     /\ ~overlapped
     /\ allAcknowledged
     /\ Len(ingestedFrom(1)) > RecentKeep)
    => /\ Len(recentResp.events) = RecentKeep
       /\ seqToSet(recentResp.events) = latestIngested(RecentKeep)
       /\ descendingByTimestamp(recentResp.events)

\* C12: a request whose store write succeeded is acknowledged as accepted
\* (201) even when the cache update fails; only a failed store write makes
\* the request fail
C12_AcceptedOnceStored ==
    \A r \in Requests :
        /\ (requests[r].pc = "done" /\ eventsOf(r) # {} /\ eventsOf(r) \subseteq eventsTable)
              => requests[r].resp.status = 201
        /\ requests[r].resp.status = 500 => requests[r].resp.failedAt = "validated"

\* C13: within one rate-limit window at most rateLimitMax events (1000 by
\* default) are accepted, single and batch requests counted together by their
\* number of events; a request refused by the limiter is answered 429, not
\* 400, and nothing of it is stored, cached or broadcast
C13_EventBudgetPerWindow ==
    /\ windowAccepted <= rateLimitMax
    /\ \A r \in Requests :
          requests[r].resp.status = 429 =>
              /\ eventsOf(r) \cap eventsTable = {}
              /\ eventsOf(r) \cap seqToSet(recentEvents) = {}
              /\ eventsOf(r) \cap emitted = {}

\* ------------------------------------------------------------------ Client Event Buffer properties
\* C8 as stated: after the R-th failed flush attempt that included it an
\* event is no longer in the queue
C8_DroppedAtCeiling ==
    \A e \in EventIds : failures[e] >= RetryAttempts => ~inQueue(e)

\* C8 amended: an event is carried by at most R + 1 delivery attempts, and
\* after the (R+1)-th failed attempt that included it it is neither in the
\* queue nor in flight
C8_DroppedAfterCeiling ==
    \A e \in EventIds :
        /\ attempts[e] <= RetryAttempts + 1
        /\ failures[e] <= RetryAttempts + 1
        /\ failures[e] = RetryAttempts + 1 => ~inQueue(e) /\ ~isInFlight(e) /\ ~inStorage(e)

\* C8 witness: an event that failed R + 1 times and was dropped
C8_Witness ==
    \E e \in EventIds :
        /\ failures[e] = RetryAttempts + 1
        /\ retries[e] = RetryAttempts
        /\ ~inQueue(e)

\* C9: while the client is offline every event tracked since the connection
\* was lost stays in the queue and in the persisted snapshot, and no delivery
\* of it is attempted
C9_OfflineEventsKept ==
    ~isOnline => \A e \in offlineTracked : inQueue(e) /\ inStorage(e) /\ attempts[e] = 0

\* C14: the teardown flush, flush(true), hands the batch it took to the
\* beacon (or its synchronous fallback) only: the step that sends a beacon
\* starts no fetch of the batch, so no event of it is transmitted twice or
\* requeued by a failing fetch afterwards
C14_TeardownUsesBeaconOnly ==
    [][beaconed' # beaconed => (inFlight' = inFlight /\ attempts' = attempts)]_vars

\* C15: when a new instance is constructed over a snapshot that holds events,
\* all of those events are in the new instance's queue once construction has
\* finished, with the flush of the loaded events scheduled
C15_SnapshotSurvivesRestart ==
    [][instance' # instance =>
          /\ \A i \in 1..Len(storage) : storage[i].id \in seqToSet(eventQueue')
          /\ storage # <<>> => loadFlushPending']_vars

\* C16: when reset() returns the user is anonymous, the session id is a new
\* one, the queue is empty and the snapshot cleared; from then on no event
\* tracked before the reset is in the queue or the snapshot, also when a
\* delivery that was in flight at the reset fails later
C16_ResetDropsEarlierEvents ==
    [][/\ resetMark' # resetMark =>
             /\ userId' = "null"
             /\ sessionId' # sessionId
             /\ eventQueue' = <<>>
             /\ storage' = <<>>
       /\ \A e \in EventIds :
             e < resetMark' => (e \notin seqToSet(eventQueue') /\ \A i \in 1..Len(storage') : storage'[i].id # e)]_vars

\* C17: a destroyed instance stays destroyed and is quiet: after destroy()
\* no connectivity change, timer tick, page unload or pending timeout (any
\* step that is not a new track() call) starts a delivery, by fetch or by
\* beacon
C17_DestroyedStaysQuiet ==
    [][(destroyed /\ nextId' = nextId) =>
          /\ destroyed'
          /\ \A e \in EventIds : attempts'[e] <= attempts[e]
          /\ beaconed' = beaconed]_vars

\* C18: on a fresh, online instance the first flush is triggered by the
\* BatchSize-th call of track() (event 1 is the page view the constructor
\* tracks itself, so the n-th call of the application tracks event n + 1),
\* and the batch it sends holds the BatchSize events of those calls
C18_FirstFlushAtBatchSizeCalls ==
    [][(/\ nextId' = nextId + 1
        /\ isOnline
        /\ inFlight' # inFlight
        /\ \A e \in EventIds : attempts[e] = 0
        /\ Len(eventQueue) = nextId - 1)
       => /\ nextId - 1 = BatchSize
          /\ \E b \in inFlight' : b = [i \in 1..BatchSize |-> i + 1]]_vars

\* ------------------------------------------------------------------ Analytics route properties
\* the rate of a step with users distinct users after a step with previous
\* distinct users, in hundredths of a percent
expectedRate(users, previous) == roundedPercent(users, previous)

\* C19: in every successful funnel response the conversion rate of step 1
\* is 100 and the rate of a later step is its distinct users over those of
\* the step before, times 100, rounded to two decimals; the counts
\* 1000, 300, 45 give the rates 100, 30, 15
C19_FunnelRates ==
    funnelResp.status = 200 =>
        /\ Len(funnelResp.funnel) = Len(funnelStore)
        /\ funnelResp.funnel[1].conversion_rate = 10000
        /\ \A i \in 2..Len(funnelStore) :
              funnelStore[i - 1] > 0 =>
                  funnelResp.funnel[i].conversion_rate = expectedRate(funnelStore[i], funnelStore[i - 1])
        /\ funnelStore = <<1000, 300, 45>> =>
              [i \in 1..3 |-> funnelResp.funnel[i].conversion_rate] = <<10000, 3000, 1500>>

\* ------------------------------------------------------------------ Query Service error responses
\* C20: a request that ended in a validation rejection or in an execution
\* failure is answered with an error response that carries the non-empty
\* text of the generated query
C20_ErrorCarriesQuery ==
    (stage = "Returned" /\ seqToSet(trace) \cap {"Rejected", "ExecutionFailed"} # {})
        => /\ response.status >= 400
           /\ response.sql = sql
           /\ response.sql # <<>>

\* ------------------------------------------------------------------ Query record properties
\* the invocation reached the Query Service and failed in generation,
\* validation or execution
invocationFailed == seqToSet(trace) \cap {"GenerationFailed", "Rejected", "ExecutionFailed"} # {}

\* the record of an answered invocation: one record, of that invocation,
\* with the error message set exactly when the invocation failed
oneQueryRecord ==
    /\ Len(logged) = 1
    /\ logged[1].generated_sql = response.sql
    /\ logged[1].result_count = response.rows
    /\ (logged[1].error_message # "") <=> invocationFailed

C22_ValidationErrorNotRequeued ==
    [][(failures' # failures /\ lastStatus' = "400")
          => (eventQueue' = eventQueue /\ retries' = retries)]_vars

\* ------------------------------------------------------------------ Realtime service properties
\* the connection has joined the topic of the project: it is connected and
\* has sent join_project for it, once or more, since it connected
hasJoined(s, pid) == s \in connectedClients /\ pid \in seqToSet(joinLog[s])

C24_CacheNeverChangesAnswer ==
    recentResp.status = 200 => recentResp.events \in storeRecent(recentResp.limit)

\* C25: in every reachable state the recent-events list of the tenant holds
\* at most RecentKeep (100 in the source) entries, whatever single-event and
\* batch requests interleave: no over-length list is ever observable
C25_RecentListNeverOverLength ==
    Len(recentEvents) <= RecentKeep

\* ------------------------------------------------------------------ Client requeue order
\* C26: when the delivery of a batch fails, exactly its events with a retry
\* count below the ceiling are put back, each with its retry count one
\* higher, in their original relative order and ahead of everything the
\* queue held at that moment (the events tracked since the batch was taken
\* and the events another failed batch put back); the other retry counts
\* and the rest of the queue are untouched
C26_RequeueAtFrontInOrder ==
    [][failures' # failures =>
          \E b \in inFlight :
             LET back == SelectSeq(b, LAMBDA e : retries[e] < RetryAttempts)
             IN /\ inFlight' = inFlight \ {b}
                /\ eventQueue' = back \o eventQueue
                /\ retries' = [e \in EventIds |-> IF e \in seqToSet(back) THEN retries[e] + 1 ELSE retries[e]]]_vars

\* C26 witness: two batches were in flight at once, <<1, 2>> failed first
\* and <<3>> after it: the later failure is in front, each batch in its order
C26_Witness ==
    /\ eventQueue = <<3, 1, 2>>
    /\ \A e \in EventIds : e <= 3 => (retries[e] = 1 /\ failures[e] = 1 /\ attempts[e] = 1)
    /\ inFlight = {}

\* ------------------------------------------------------------------ Client snapshot
\* C27: with offline persistence enabled, after every step that changes the
\* in-memory queue (track, flush from any trigger, requeue after a failed
\* delivery) the persisted snapshot equals the queue
C27_SnapshotEqualsQueue ==
    [][(offlineEnabled /\ eventQueue' # eventQueue) => storage' = snapshot(eventQueue', retries')]_vars

\* ------------------------------------------------------------------ extractSQL properties
\* C28: for a response that holds one SELECT query, bare, in a code fence
\* or after prose, extractSQL returns the whole query, from SELECT to its
\* end, without the trailing semicolon
C28_ExtractsWholeQuery ==
    extraction.done => extraction.out = extraction.query

C30_BatchesPassGatewaySchema ==
    \A b \in inFlight : batchEventsSchema(requestBody(b)).key = ""
====
